---- MODULE Spec2Model ----
(***************************************************************************)
(* Model of the compiletest directive migration tool (src/main.rs).        *)
(*                                                                         *)
(* A Rust String is a sequence of one-character strings.  Positions are    *)
(* 1-based here (Rust's are 0-based); 0 stands for None.                   *)
(***************************************************************************)
EXTENDS Naturals, Integers, Sequences, FiniteSets, TLC

VARIABLES
    command,            \* cli.command: "Migrate" or "CollectDirectiveNames"
    manual_directives,  \* config.manual_directives (a Vec<String>)
    disk,               \* file system: path of a regular file -> its content
    unreadable,         \* file system: the entries the walker cannot read
    pc,                 \* position of the run
    run,                \* number of the current invocation
    collected_headers,  \* BTreeSet<String> built by main
    walk_errors,        \* entries for which the walker yielded Err (dropped by filter_map)
    test_file_paths,    \* Vec<PathBuf> after sort()
    idx,                \* position of the `for path in test_file_paths` loop
    reader,             \* unread rest of the BufReader
    line_buf,           \* the line read last
    written,            \* what the last write! appended to the temporary file
    tmp_file,           \* content of the NamedTempFile
    replaced,           \* paths persisted so far in this run, in order
    orig,               \* disk as it was when this run started
    failure,            \* which error ended the run ("none" while it has not failed)
    directive_names     \* result of extract_directive_names

vars == <<command, manual_directives, disk, unreadable, pc, run, collected_headers,
          walk_errors, test_file_paths, idx, reader, line_buf, written, tmp_file,
          replaced, orig, failure, directive_names>>

-----------------------------------------------------------------------------
(* Bounds *)

\* longest directive string enumerated for extract_directive_names
MaxDirectiveLen == 5
\* most lines (drawn from LinePool) in the test file whose content varies
MaxLines == 2
\* most invocations of the tool in one behaviour
MaxRuns == 2
\* most entries for which one walk of the tests directory yields an error
MaxWalkErrors == 1

-----------------------------------------------------------------------------
(* Strings *)

Min(S) == CHOOSE x \in S : \A y \in S : x <= y

Take(s, n) == SubSeq(s, 1, n)

Drop(s, n) == SubSeq(s, n + 1, Len(s))

\* char::is_whitespace, for the characters the model uses
IsWhitespace(c) == c \in {" ", "\t", "\n", "\r"}

\* byte value of a character, for the Ord of String and Path
CharCode(c) ==
    CASE c = "\t" -> 9  [] c = "\n" -> 10 [] c = "\r" -> 13 [] c = " " -> 32
      [] c = "#" -> 35  [] c = "-" -> 45  [] c = "." -> 46  [] c = "/" -> 47
      [] c = ":" -> 58  [] c = "@" -> 64  [] c = "T" -> 84  [] c = "[" -> 91
      [] c = "]" -> 93  [] c = "_" -> 95  [] c = "a" -> 97  [] c = "b" -> 98
      [] c = "c" -> 99  [] c = "d" -> 100 [] c = "e" -> 101 [] c = "f" -> 102
      [] c = "g" -> 103 [] c = "i" -> 105 [] c = "l" -> 108 [] c = "n" -> 110
      [] c = "o" -> 111 [] c = "r" -> 114 [] c = "s" -> 115 [] c = "t" -> 116
      [] c = "u" -> 117 [] c = "v" -> 118 [] c = "x" -> 120 [] c = "y" -> 121

\* str::cmp: lexicographic by bytes, a proper prefix first
StrLess(s, t) ==
    \E i \in 1..(Len(t)) :
        /\ i <= Len(s) + 1
        /\ Take(s, i - 1) = Take(t, i - 1)
        /\ \/ i = Len(s) + 1
           \/ CharCode(s[i]) < CharCode(t[i])

\* str::starts_with
StartsWith(s, p) == Len(p) <= Len(s) /\ Take(s, Len(p)) = p

\* str::find(&str): position of the first occurrence of p in s, 0 for None
Find(s, p) ==
    LET at == {i \in 1..(Len(s) + 1 - Len(p)) : SubSeq(s, i, i + Len(p) - 1) = p}
    IN  IF at = {} THEN 0 ELSE Min(at)

\* str::find([char; N]): position of the first character of s in cs, 0 for None
FindAny(s, cs) ==
    LET at == {i \in 1..Len(s) : s[i] \in cs}
    IN  IF at = {} THEN 0 ELSE Min(at)

\* str::contains([char; N])
ContainsAny(s, cs) == FindAny(s, cs) # 0

\* str::split_once(&str)
SplitOnce(s, p) ==
    LET i == Find(s, p)
    IN  IF i = 0 THEN [found |-> FALSE, before |-> <<>>, after |-> <<>>]
        ELSE [found |-> TRUE, before |-> Take(s, i - 1), after |-> Drop(s, i + Len(p) - 1)]

\* str::split_once([char; N])
SplitOnceAny(s, cs) ==
    LET i == FindAny(s, cs)
    IN  IF i = 0 THEN [found |-> FALSE, before |-> <<>>, after |-> <<>>]
        ELSE [found |-> TRUE, before |-> Take(s, i - 1), after |-> Drop(s, i)]

\* str::trim_start
TrimStart(s) ==
    LET keep == {i \in 1..Len(s) : ~IsWhitespace(s[i])}
    IN  IF keep = {} THEN <<>> ELSE Drop(s, Min(keep) - 1)

\* str::trim_end
TrimEnd(s) ==
    LET keep == {i \in 1..Len(s) : ~IsWhitespace(s[i])}
    IN  IF keep = {} THEN <<>> ELSE Take(s, CHOOSE i \in keep : \A j \in keep : j <= i)

\* str::trim
Trim(s) == TrimEnd(TrimStart(s))

\* str::replace(c, ""): s without the character c
RECURSIVE Remove(_, _)
Remove(s, c) ==
    IF s = <<>> THEN <<>>
    ELSE IF s[1] = c THEN Remove(Tail(s), c)
    ELSE <<s[1]>> \o Remove(Tail(s), c)

\* one BufRead::read_line: the bytes up to and including the first "\n", or all
ReadLine(r) ==
    LET i == Find(r, <<"\n">>)
    IN  IF i = 0 THEN [line |-> r, rest |-> <<>>]
        ELSE [line |-> Take(r, i), rest |-> Drop(r, i)]

\* one item of str::lines: the terminator "\n" or "\r\n" is stripped
StripTerminator(l) ==
    IF l # <<>> /\ l[Len(l)] = "\n"
    THEN LET m == Take(l, Len(l) - 1)
         IN  IF m # <<>> /\ m[Len(m)] = "\r" THEN Take(m, Len(m) - 1) ELSE m
    ELSE l

\* str::lines().collect::<BTreeSet<String>>()
RECURSIVE Lines(_)
Lines(s) ==
    IF s = <<>> THEN {}
    ELSE LET r == ReadLine(s)
         IN  {StripTerminator(r.line)} \cup Lines(r.rest)

-----------------------------------------------------------------------------
(* extract_directive_names *)

Marker == <<"/", "/">>

\* faulty variant: the stray colon is not skipped
SkipStrayColonNever(rest) == rest

\* main.rs 264-268: skip the colon of `// [rev]: directive-name`
SkipStrayColon(rest) ==
    IF StartsWith(rest, <<":">>) THEN TrimStart(Drop(rest, 1)) ELSE rest

\* faulty variant: only ':' ends a name
NameSeparatorsColonOnly == {":"}

\* main.rs 271: the characters that end a directive name
NameSeparators == {":", " "}

\* main.rs 234-260: drop a leading revision group; fails without a closing bracket
StripRevisions(rest) ==
    LET lbracket_pos == Find(rest, <<"[">>)
        rbracket_pos == Find(rest, <<"]">>)
    IN  IF lbracket_pos # 0 /\ StartsWith(rest, <<"[">>)
        THEN IF rbracket_pos = 0 THEN [kind |-> "panic_unpaired", rest |-> <<>>]
             ELSE IF ~(lbracket_pos <= rbracket_pos)
                  THEN [kind |-> "assert_bracket_order", rest |-> <<>>]
             ELSE [kind |-> "ok", rest |-> TrimStart(Drop(rest, rbracket_pos))]
        ELSE [kind |-> "ok", rest |-> TrimStart(rest)]

\* main.rs 271-277: the name is what precedes the first separator, trimmed
DirectiveName(rest) ==
    LET sp == SplitOnceAny(rest, NameSeparators)
    IN  IF sp.found THEN [kind |-> "ok", name |-> Trim(sp.before)]
        ELSE IF ContainsAny(Trim(rest), {" "})
             THEN [kind |-> "assert_no_space", name |-> <<>>]
        ELSE [kind |-> "ok", name |-> Trim(rest)]

\* main.rs 213-279: the body of the loop, for one raw directive
ExtractOne(raw_directive) ==
    LET sp == SplitOnce(raw_directive, Marker)
    IN  IF ~sp.found THEN [kind |-> "bail_no_marker", name |-> <<>>]
        ELSE IF Trim(sp.before) # <<>> THEN [kind |-> "assert_leading", name |-> <<>>]
        ELSE LET rev == StripRevisions(TrimStart(sp.after))
             IN  IF rev.kind # "ok" THEN [kind |-> rev.kind, name |-> <<>>]
                 ELSE DirectiveName(SkipStrayColon(rev.rest))

\* main.rs 208-283: the directives are visited in the BTreeSet's order and the
\* first failure ends the function
extract_directive_names(collected_directives) ==
    LET bad == {d \in collected_directives : ExtractOne(d).kind # "ok"}
    IN  IF bad = {}
        THEN [kind |-> "ok", names |-> {ExtractOne(d).name : d \in collected_directives}]
        ELSE LET first == CHOOSE d \in bad : \A e \in bad \ {d} : StrLess(d, e)
             IN  [kind |-> ExtractOne(first).kind, names |-> {}]

-----------------------------------------------------------------------------
(* Paths and the file system.  A path is the sequence of its components      *)
(* below $PATH_TO_RUSTC.                                                     *)

n_tests == <<"t", "e", "s", "t", "s">>
n_ui == <<"u", "i">>
n_a_rs == <<"a", ".", "r", "s">>
n_c_txt == <<"c", ".", "t", "x", "t">>
n_d_rs == <<"d", ".", "r", "s">>
n_e_rs == <<"e", ".", "r", "s">>
n_ui_fixed == <<"u", "i", ".", "f", "i", "x", "e", "d">>
n_src == <<"s", "r", "c">>
n_build == <<"b", "u", "i", "l", "d">>
n_test == <<"t", "e", "s", "t">>
n_directive_lines == <<"_", "_", "d", "i", "r", "e", "c", "t", "i", "v", "e", "_", "l", "i", "n", "e", "s">>
n_a_txt == <<"a", ".", "t", "x", "t">>

\* main.rs 15: the target triple the tool was built for
TARGET == <<"T">>

\* Path::with_extension("txt") of a file name without extension
WithExtensionTxt(name) == name \o <<".", "t", "x", "t">>

\* main.rs 99-104
collected_headers_path == <<n_build, TARGET, n_test, n_directive_lines>>

\* main.rs 108: the file collect_headers reads
HeadersFile ==
    Take(collected_headers_path, Len(collected_headers_path) - 1)
        \o <<WithExtensionTxt(collected_headers_path[Len(collected_headers_path)])>>

\* a file of the directory tree next to the headers file
SecondaryFile == collected_headers_path \o <<n_a_txt>>

TestsDir == <<n_tests>>

UiDir == <<n_tests, n_ui>>

Directories ==
    {TestsDir, UiDir, <<n_tests, n_d_rs>>, <<n_src>>, <<n_build>>, <<n_build, TARGET>>,
     <<n_build, TARGET, n_test>>, collected_headers_path}

VaryingFile == <<n_tests, n_a_rs>>

Files ==
    {VaryingFile, <<n_tests, n_c_txt>>, <<n_tests, n_d_rs, n_e_rs>>, <<n_tests, n_ui, n_a_rs>>,
     <<n_tests, n_ui_fixed>>, <<n_src, n_a_rs>>, HeadersFile, SecondaryFile}

\* faulty variant: a prefix of the path as text, so tests/ui.fixed counts as under tests/ui
PathStartsWithText(p, base) ==
    /\ Len(base) <= Len(p)
    /\ Take(p, Len(base) - 1) = Take(base, Len(base) - 1)
    /\ StartsWith(p[Len(base)], base[Len(base)])

\* Path::starts_with: base is a prefix of p, component by component
PathStartsWith(p, base) == Len(base) <= Len(p) /\ Take(p, Len(base)) = base

\* Path::extension: what follows the last '.' of the file name; none when the
\* name has no '.' or only a leading one
Extension(p) ==
    LET name == p[Len(p)]
        dots == {i \in 1..Len(name) : name[i] = "."}
        last == CHOOSE i \in dots : \A j \in dots : j <= i
    IN  IF dots = {} \/ last = 1 THEN [some |-> FALSE, ext |-> <<>>]
        ELSE [some |-> TRUE, ext |-> Drop(name, last)]

\* Ord of Path: lexicographic over the components
PathLess(p, q) ==
    \E i \in 1..Len(q) :
        /\ i <= Len(p) + 1
        /\ Take(p, i - 1) = Take(q, i - 1)
        /\ \/ i = Len(p) + 1
           \/ StrLess(p[i], q[i])

\* Vec::sort of a set of paths
RECURSIVE SortPaths(_)
SortPaths(S) ==
    IF S = {} THEN <<>>
    ELSE LET least == CHOOSE p \in S : \A q \in S \ {p} : PathLess(p, q)
         IN  <<least>> \o SortPaths(S \ {least})

\* what WalkDir::new(tests) visits
WalkEntries == {p \in Directories \cup Files : PathStartsWith(p, TestsDir)}

\* the entries the walker reaches: those with every directory above them readable
Reached(bad) ==
    {p \in WalkEntries : \A k \in 1..(Len(p) - 1) : Take(p, k) \notin bad}

\* the entries for which the walker yields Err
WalkErrors(bad) == Reached(bad) \cap bad

\* main.rs 137: filter_map(Result::ok) keeps the entries the walker yields Ok; a
\* directory that cannot be read is dropped with everything below it
Yielded(bad) == Reached(bad) \ bad

ext_rs == <<"r", "s">>

ext_fixed == <<"f", "i", "x", "e", "d">>

\* main.rs 138-146: the filter of the walker
IsTestFile(p) ==
    /\ p \notin Directories
    /\ LET e == Extension(p) IN e.some /\ (e.ext = ext_rs \/ e.ext = ext_fixed)
    /\ ~PathStartsWith(p, UiDir)

-----------------------------------------------------------------------------
(* collect_headers *)

IgnoreTidy == <<"i", "g", "n", "o", "r", "e", "-", "t", "i", "d", "y">>

\* main.rs 115-122: the predicate of collected_headers.retain
Retained(header) ==
    /\ Trim(header) # <<>>
    /\ Trim(header) # Marker
    /\ ~StartsWith(Trim(header), <<"#">>)
    /\ LET sp == SplitOnce(header, Marker)
       IN  IF sp.found THEN ~StartsWith(Trim(sp.after), IgnoreTidy) ELSE TRUE

\* main.rs 108-126: the retained lines of the headers file
collect_headers(headers_txt) == {header \in Lines(headers_txt) : Retained(header)}

\* the elements of a Vec
Elements(v) == {v[i] : i \in 1..Len(v)}

-----------------------------------------------------------------------------
(* migrate_compiletest_tests: one line *)

\* main.rs 188: line_buf.replace("\r", "").replace("\n", "")
WithoutLineEndings(line) == Remove(Remove(line, "\r"), "\n")

\* faulty variant: the text before the marker is not written back
RewriteLineDropBefore(line, headers) ==
    IF StartsWith(TrimStart(line), Marker)
    THEN LET sp == SplitOnce(line, Marker)
         IN  IF \E header \in headers : WithoutLineEndings(line) = header
             THEN Marker \o <<"@">> \o sp.after
             ELSE line
    ELSE line

\* faulty variant: a line that is not rewritten is written with "\n" as its terminator
RewriteLineNormalized(line, headers) ==
    IF StartsWith(TrimStart(line), Marker)
    THEN LET sp == SplitOnce(line, Marker)
         IN  IF \E header \in headers : WithoutLineEndings(line) = header
             THEN sp.before \o Marker \o <<"@">> \o sp.after
             ELSE WithoutLineEndings(line) \o <<"\n">>
    ELSE line

\* main.rs 184-198: what is written to the temporary file for one line
RewriteLine(line, headers) ==
    IF StartsWith(TrimStart(line), Marker)
    THEN LET sp == SplitOnce(line, Marker)
         IN  IF \E header \in headers : WithoutLineEndings(line) = header
             THEN sp.before \o Marker \o <<"@">> \o sp.after
             ELSE line
    ELSE line

-----------------------------------------------------------------------------
(* Inputs *)

\* lines a test file is made of
LinePool ==
    { <<"/", "/", " ", "a", "\n">>,
      <<"/", "/", "@", " ", "a", "\n">>,
      <<"\t", "/", "/", " ", "a", "\r", "\n">>,
      <<"a", " ", "/", "/", " ", "a", "\n">>,
      <<"/", "/", "\n">>,
      <<"f", "n", "\n">>,
      <<"/", "/", " ", "c">> }

RECURSIVE Concat(_)
Concat(ls) == IF ls = <<>> THEN <<>> ELSE Head(ls) \o Concat(Tail(ls))

\* contents of the test file that varies: up to n lines of LinePool
Contents(n) == {Concat(ls) : ls \in UNION {[1..k -> LinePool] : k \in 0..n}}

\* contents of the headers file
HeadersPool ==
    { <<"/", "/", " ", "a", "\n", "/", "/", "@", " ", "a", "\n", "\t", "/", "/", " ", "a", "\n">>,
      <<"/", "/", " ", "a", "\r", "\n", "/", "/", "\n", "#", " ", "a", "\n", "\n", "/", "/", " ", "i", "g", "n", "o", "r", "e", "-", "t", "i", "d", "y", "\n", " ", "/", "/", "i", "g", "n", "o", "r", "e", "-", "t", "i", "d", "y", "-", "x", "\n", " ", " ", "\n", "\t", "#", "\n", "a", " ", "/", "/", " ", "a">>,
      <<>> }

\* values of manual_directives
ManualPool ==
    { <<>>,
      <<<<"/", "/", " ", "c">>, <<"/", "/", " ", "a">>>>,
      <<<<"/", "/">>, <<"/", "/", " ", "i", "g", "n", "o", "r", "e", "-", "t", "i", "d", "y", "-", "x">>>> }

\* the content of the files that do not vary
FixedContent(p) ==
    IF p = SecondaryFile THEN <<"/", "/", " ", "b", "\n">>
    ELSE IF p = <<n_tests, n_d_rs, n_e_rs>> THEN <<"/", "/", "@", " ", "a", "\n", "/", "/", " ", "a">>
    ELSE <<"/", "/", " ", "a", "\n">>

-----------------------------------------------------------------------------
(* The run *)

Path == test_file_paths[idx]

\* the file system whose varying test file holds c and whose headers file holds h
DiskWith(c, h) ==
    [p \in Files |->
        IF p = VaryingFile THEN c ELSE IF p = HeadersFile THEN h ELSE FixedContent(p)]

\* the state in which main starts; what is drawn is the command, the configuration and
\* the file system: a test file of up to MaxLines lines with every entry readable, or
\* a test file of at most one line with up to MaxWalkErrors unreadable entries
Init ==
    /\ command \in {"Migrate", "CollectDirectiveNames"}
    /\ manual_directives \in ManualPool
    /\ \E h \in HeadersPool :
           \/ /\ unreadable = {}
              /\ \E c \in Contents(MaxLines) : disk = DiskWith(c, h)
           \/ /\ unreadable \in {S \in SUBSET WalkEntries :
                                    S # {} /\ Cardinality(S) <= MaxWalkErrors}
              /\ \E c \in Contents(1) : disk = DiskWith(c, h)
    /\ pc = "start"
    /\ run = 1
    /\ collected_headers = {}
    /\ walk_errors = {}
    /\ test_file_paths = <<>>
    /\ idx = 1
    /\ reader = <<>>
    /\ line_buf = <<>>
    /\ written = <<>>
    /\ tmp_file = <<>>
    /\ replaced = <<>>
    /\ orig = disk
    /\ failure = "none"
    /\ directive_names = {}

\* main.rs 80-81 and 85-86: collect_headers, then extend with manual_directives
CollectHeaders ==
    /\ pc = "start"
    /\ collected_headers' = collect_headers(disk[HeadersFile]) \cup Elements(manual_directives)
    /\ pc' = "collected"
    /\ UNCHANGED <<command, manual_directives, disk, unreadable, run, walk_errors, test_file_paths, idx,
                   reader, line_buf, written, tmp_file, replaced, orig,
                   failure, directive_names>>

\* main.rs 134-150: walk tests, drop the entries that failed, filter, sort
WalkTests ==
    /\ pc = "collected"
    /\ command = "Migrate"
    /\ walk_errors' = WalkErrors(unreadable)
    /\ test_file_paths' = SortPaths({p \in Yielded(unreadable) : IsTestFile(p)})
    /\ idx' = 1
    /\ pc' = "loop"
    /\ UNCHANGED <<command, manual_directives, disk, unreadable, run, collected_headers, reader,
                   line_buf, written, tmp_file, replaced, orig, failure,
                   directive_names>>

\* main.rs 171-176: open the test file and a temporary file
OpenFile ==
    /\ pc = "loop"
    /\ idx <= Len(test_file_paths)
    /\ reader' = disk[Path]
    /\ tmp_file' = <<>>
    /\ line_buf' = <<>>
    /\ written' = <<>>
    /\ pc' = "lines"
    /\ UNCHANGED <<command, manual_directives, disk, unreadable, run, collected_headers, walk_errors,
                   test_file_paths, idx, replaced, orig, failure,
                   directive_names>>

\* faulty variant: each line is written to the test file itself as well
ProcessLineInPlace ==
    /\ pc = "lines"
    /\ reader # <<>>
    /\ line_buf' = ReadLine(reader).line
    /\ reader' = ReadLine(reader).rest
    /\ written' = RewriteLine(line_buf', collected_headers)
    /\ tmp_file' = tmp_file \o written'
    /\ disk' = [disk EXCEPT ![Path] = tmp_file']
    /\ UNCHANGED <<command, manual_directives, unreadable, pc, run, collected_headers, walk_errors,
                   test_file_paths, idx, replaced, orig, failure,
                   directive_names>>

\* main.rs 178-198: read one line and write it, rewritten or not, to the temporary file
ProcessLine ==
    /\ pc = "lines"
    /\ reader # <<>>
    /\ line_buf' = ReadLine(reader).line
    /\ reader' = ReadLine(reader).rest
    /\ written' = RewriteLine(line_buf', collected_headers)
    /\ tmp_file' = tmp_file \o written'
    /\ UNCHANGED <<command, manual_directives, disk, unreadable, pc, run, collected_headers, walk_errors,
                   test_file_paths, idx, replaced, orig, failure,
                   directive_names>>

\* main.rs 180-182 and 201-202: at the end of the file the temporary file replaces it
PersistFile ==
    /\ pc = "lines"
    /\ reader = <<>>
    /\ disk' = [disk EXCEPT ![Path] = tmp_file]
    /\ replaced' = Append(replaced, Path)
    /\ idx' = idx + 1
    /\ pc' = "loop"
    /\ UNCHANGED <<command, manual_directives, unreadable, run, collected_headers, walk_errors,
                   test_file_paths, reader, line_buf, written, tmp_file, orig,
                   failure, directive_names>>

\* main.rs 205 and 92: every file was processed
Finish ==
    /\ pc = "loop"
    /\ idx > Len(test_file_paths)
    /\ pc' = "done"
    /\ UNCHANGED <<command, manual_directives, disk, unreadable, run, collected_headers, walk_errors,
                   test_file_paths, idx, reader, line_buf, written, tmp_file, replaced,
                   orig, failure, directive_names>>

\* main.rs 87-88: the CollectDirectiveNames command
ExtractNames ==
    /\ pc = "collected"
    /\ command = "CollectDirectiveNames"
    /\ LET r == extract_directive_names(collected_headers)
       IN  IF r.kind = "ok"
           THEN directive_names' = r.names /\ pc' = "done" /\ failure' = failure
           ELSE directive_names' = directive_names /\ pc' = "failed" /\ failure' = r.kind
    /\ UNCHANGED <<command, manual_directives, disk, unreadable, run, collected_headers, walk_errors,
                   test_file_paths, idx, reader, line_buf, written, tmp_file, replaced,
                   orig>>

\* the run ends with the error `what`; the temporary file is dropped
Abort(what) ==
    /\ pc' = "failed"
    /\ failure' = what
    /\ UNCHANGED <<command, manual_directives, disk, unreadable, run, collected_headers, walk_errors,
                   test_file_paths, idx, reader, line_buf, written, tmp_file, replaced,
                   orig, directive_names>>

\* main.rs 108-109, 171, 174, 179, 189-197, 202: the `?` of each file operation
Fail ==
    \/ pc = "start" /\ Abort("read_headers")
    \/ pc = "loop" /\ idx <= Len(test_file_paths) /\ Abort("open")
    \/ pc = "loop" /\ idx <= Len(test_file_paths) /\ Abort("tempfile")
    \/ pc = "lines" /\ Abort("read_line")
    \/ pc = "lines" /\ reader # <<>> /\ Abort("write")
    \/ pc = "lines" /\ reader = <<>> /\ Abort("persist")

\* the tool is invoked again, with the same command and configuration, after a run
\* that returned Ok(())
Rerun ==
    /\ pc = "done"
    /\ run < MaxRuns
    /\ run' = run + 1
    /\ pc' = "start"
    /\ orig' = disk
    /\ collected_headers' = {}
    /\ walk_errors' = {}
    /\ test_file_paths' = <<>>
    /\ idx' = 1
    /\ reader' = <<>>
    /\ line_buf' = <<>>
    /\ written' = <<>>
    /\ tmp_file' = <<>>
    /\ replaced' = <<>>
    /\ directive_names' = {}
    /\ UNCHANGED <<command, manual_directives, disk, unreadable, failure>>

Next ==
    \/ CollectHeaders
    \/ WalkTests
    \/ OpenFile
    \/ ProcessLine
    \/ PersistFile
    \/ Finish
    \/ ExtractNames
    \/ Fail
    \/ Rerun

Spec == Init /\ [][Next]_vars

-----------------------------------------------------------------------------
(* extract_directive_names on every short directive string: the string is the   *)
(* only manual directive and the headers file is empty.                         *)

NameAlphabet == {"/", " ", "\t", "[", "]", ":", "a"}

BoundedStrings(n) == UNION {[1..k -> NameAlphabet] : k \in 0..n}

RunPass == <<"/", "/", " ", "r", "u", "n", "-", "p", "a", "s", "s">>

Edition == <<"/", "/", " ", "e", "d", "i", "t", "i", "o", "n", ":", " ", "2", "0", "2", "1">>

Revisioned == <<"/", "/", "[", "f", "o", "o", "]", " ", "i", "g", "n", "o", "r", "e", "-", "w", "i", "n", "d", "o", "w", "s">>

RevisionedColon == <<"/", "/", "[", "f", "o", "o", "]", ":", " ", "i", "g", "n", "o", "r", "e", "-", "w", "i", "n", "d", "o", "w", "s">>

Unbalanced == <<"/", "/", "[", "f", "o", "o", " ", "i", "g", "n", "o", "r", "e", "-", "w", "i", "n", "d", "o", "w", "s">>

Examples == {RunPass, Edition, Revisioned, RevisionedColon, Unbalanced}

\* the directive strings tried: every string of up to MaxDirectiveLen characters, the
\* marker followed by every such string, and the examples
DirectiveInputs ==
    BoundedStrings(MaxDirectiveLen)
        \cup {Marker \o b : b \in BoundedStrings(MaxDirectiveLen)}
        \cup Examples

InitNames ==
    /\ command = "CollectDirectiveNames"
    /\ manual_directives \in {<<d>> : d \in DirectiveInputs}
    /\ disk = DiskWith(<<>>, <<>>)
    /\ unreadable = {}
    /\ pc = "start"
    /\ run = MaxRuns
    /\ collected_headers = {}
    /\ walk_errors = {}
    /\ test_file_paths = <<>>
    /\ idx = 1
    /\ reader = <<>>
    /\ line_buf = <<>>
    /\ written = <<>>
    /\ tmp_file = <<>>
    /\ replaced = <<>>
    /\ orig = disk
    /\ failure = "none"
    /\ directive_names = {}

NextNames ==
    \/ CollectHeaders
    \/ ExtractNames

SpecNames == InitNames /\ [][NextNames]_vars

-----------------------------------------------------------------------------
(* Vocabulary of the properties, stated without the operators of the model   *)

NotLineEnding(c) == c \notin {"\r", "\n"}

\* a line's text with every "\r" and "\n" removed
TextOf(line) == SelectSeq(line, NotLineEnding)

\* the positions at which "//" occurs in s
MarkerPositions(s) == {i \in 1..(Len(s) - 1) : s[i] = "/" /\ s[i + 1] = "/"}

\* s with its first occurrence of "//" replaced by "//@"; s itself when it has none
FirstMarkerReplaced(s) ==
    IF MarkerPositions(s) = {} THEN s
    ELSE LET i == Min(MarkerPositions(s))
         IN  SubSeq(s, 1, i + 1) \o <<"@">> \o SubSeq(s, i + 2, Len(s))

\* "//" is the first thing on the line that is not whitespace
MarkerLeads(s) ==
    \E i \in MarkerPositions(s) : \A j \in 1..(i - 1) : s[j] \in {" ", "\t", "\n", "\r"}

\* the lines of a file, each with its terminator; the last one may have none
SourceLines(s) ==
    LET ends == {i \in 1..Len(s) : s[i] = "\n" \/ i = Len(s)}
        EndOf(k) == CHOOSE e \in ends : Cardinality({x \in ends : x < e}) = k - 1
    IN  [k \in 1..Cardinality(ends) |->
            SubSeq(s, IF k = 1 THEN 1 ELSE EndOf(k - 1) + 1, EndOf(k))]

\* the file made of the given lines
RECURSIVE Joined(_)
Joined(ls) == IF Len(ls) = 0 THEN <<>> ELSE ls[1] \o Joined(SubSeq(ls, 2, Len(ls)))

\* a file's content after a whole migration with the given directives
FullyMigrated(content, directives) ==
    LET src == SourceLines(content)
    IN  Joined([k \in 1..Len(src) |->
                   IF MarkerLeads(src[k]) /\ TextOf(src[k]) \in directives
                   THEN FirstMarkerReplaced(src[k])
                   ELSE src[k]])

-----------------------------------------------------------------------------
(* C1 *)

\* C1 as stated: every line read whose text without "\r" and "\n" is a member of the
\* directive set is written with its first "//" replaced by "//@" and nothing else
\* changed.
C1_EveryMatchingLineRewritten ==
    (line_buf # <<>> /\ TextOf(line_buf) \in collected_headers)
        => written = FirstMarkerReplaced(line_buf)

\* C1 amended: the same for every such line that begins, after optional leading
\* whitespace, with "//"; a line that does not begin so is written unchanged.
C1_LeadingMatchingLineRewritten ==
    /\ (line_buf # <<>> /\ MarkerLeads(line_buf) /\ TextOf(line_buf) \in collected_headers)
           => written = FirstMarkerReplaced(line_buf)
    /\ (line_buf # <<>> /\ ~MarkerLeads(line_buf)) => written = line_buf

\* an indented directive line ending in "\r\n" was read, matched and rewritten
C1_Witness ==
    /\ line_buf = <<"\t", "/", "/", " ", "a", "\r", "\n">>
    /\ TextOf(line_buf) \in collected_headers
    /\ written = <<"\t", "/", "/", "@", " ", "a", "\r", "\n">>

-----------------------------------------------------------------------------
(* C2 *)

\* C2: a replaced file has one line per source line, every line whose text is not a
\* member of the directive set is byte-identical at its position, and a file none of
\* whose lines is a member is byte-identical.
C2_NonDirectivesRoundTrip ==
    \A i \in 1..Len(replaced) :
        LET src == SourceLines(orig[replaced[i]])
            out == SourceLines(disk[replaced[i]])
        IN  /\ Len(out) = Len(src)
            /\ \A k \in 1..Len(src) :
                   TextOf(src[k]) \notin collected_headers => out[k] = src[k]
            /\ (\A k \in 1..Len(src) : TextOf(src[k]) \notin collected_headers)
                   => disk[replaced[i]] = orig[replaced[i]]

\* a replaced file of two lines, the last without terminator, one of them rewritten
\* and the other, a comment that is no directive, kept
C2_Witness ==
    \E i \in 1..Len(replaced) :
        LET src == SourceLines(orig[replaced[i]])
            out == SourceLines(disk[replaced[i]])
        IN  /\ Len(src) = 2
            /\ src[2][Len(src[2])] # "\n"
            /\ \E k \in 1..2 : out[k] # src[k]
            /\ \E k \in 1..2 :
                   /\ MarkerLeads(src[k])
                   /\ TextOf(src[k]) \notin collected_headers
                   /\ out[k] = src[k]

-----------------------------------------------------------------------------
(* C3 *)

\* C3 as stated: a second run after a run that returned Ok(()), with the same
\* directive set, changes no byte of any file.
C3_SecondRunChangesNothing == run >= 2 => disk = orig

-----------------------------------------------------------------------------
(* C4 *)

\* every file holds its content from the start of the run or that content fully migrated
EveryFileWholeOrUntouched ==
    \A f \in Files :
        disk[f] = orig[f] \/ disk[f] = FullyMigrated(orig[f], collected_headers)

\* a step of the run changes the file system only by replacing the file being
\* processed, all of whose lines were read, with the temporary file
OnlyPersistChangesDisk ==
    disk' # disk =>
        /\ pc = "lines"
        /\ reader = <<>>
        /\ \E f \in Files : disk' = [disk EXCEPT ![f] = tmp_file]
        /\ tmp_file = FullyMigrated(orig[Path], collected_headers)

\* C4: at every point of a run, failed or not, every file holds its original or its
\* fully migrated content, and the file system changes only in the final replace step
\* of a file.
C4_Atomicity == [](EveryFileWholeOrUntouched) /\ [][OnlyPersistChangesDisk]_vars

\* a write failed in the middle of a file after a rewritten line went to the
\* temporary file, with an earlier file already replaced by its migrated content
C4_Witness ==
    /\ failure = "write"
    /\ reader # <<>>
    /\ tmp_file # <<>>
    /\ tmp_file # SubSeq(orig[Path], 1, Len(tmp_file))
    /\ disk[Path] = orig[Path]
    /\ \E i \in 1..Len(replaced) : disk[replaced[i]] # orig[replaced[i]]

-----------------------------------------------------------------------------
(* C5 *)

\* s without its leading whitespace
LeadingWhitespaceDropped(s) ==
    IF \A i \in 1..Len(s) : s[i] \in {" ", "\t", "\n", "\r"}
    THEN <<>>
    ELSE SubSeq(s, Min({i \in 1..Len(s) : s[i] \notin {" ", "\t", "\n", "\r"}}), Len(s))

\* s begins with prefix
BeginsWith(s, prefix) == Len(s) >= Len(prefix) /\ SubSeq(s, 1, Len(prefix)) = prefix

\* an entry the filtering invariant names: empty or whitespace only, a bare "//",
\* starting with '#', or with a body after "//" that begins with "ignore-tidy"
NamedByFilter(h) ==
    \/ LeadingWhitespaceDropped(h) = <<>>
    \/ h = <<"/", "/">>
    \/ BeginsWith(h, <<"#">>)
    \/ /\ MarkerPositions(h) # {}
       /\ BeginsWith(LeadingWhitespaceDropped(SubSeq(h, Min(MarkerPositions(h)) + 2, Len(h))),
                     <<"i", "g", "n", "o", "r", "e", "-", "t", "i", "d", "y">>)

\* C5 as stated: the set handed to migration and to name extraction holds no entry the
\* filter names, and a line that is a bare marker, or has only whitespace after it,
\* is never rewritten.
C5_FilteringInvariant ==
    /\ pc # "start" => \A h \in collected_headers : ~NamedByFilter(h)
    /\ (line_buf # <<>> /\ MarkerLeads(line_buf)
            /\ LeadingWhitespaceDropped(SubSeq(line_buf, Min(MarkerPositions(line_buf)) + 2,
                                               Len(line_buf))) = <<>>)
           => written = line_buf

-----------------------------------------------------------------------------
(* C6 *)

\* the directive string extract_directive_names was given
Directive == manual_directives[1]

\* extract_directive_names has returned or failed
Extracted == command = "CollectDirectiveNames" /\ pc \in {"done", "failed"}

\* what follows the "//" a directive string starts with, without leading whitespace
Body(d) == LeadingWhitespaceDropped(SubSeq(d, 3, Len(d)))

\* the positions of the character c in s
PositionsOf(s, c) == {i \in 1..Len(s) : s[i] = c}

\* the body starts a revision group that is never closed
UnclosedGroup(d) == BeginsWith(Body(d), <<"[">>) /\ PositionsOf(Body(d), "]") = {}

\* the body without its leading revision group "[...]", if it has one
AfterGroup(d) ==
    IF BeginsWith(Body(d), <<"[">>)
    THEN LeadingWhitespaceDropped(
             SubSeq(Body(d), Min(PositionsOf(Body(d), "]")) + 1, Len(Body(d))))
    ELSE Body(d)

\* the text of the directive: what follows the group and the optional stray ':'
TextOfDirective(d) ==
    IF BeginsWith(AfterGroup(d), <<":">>)
    THEN LeadingWhitespaceDropped(SubSeq(AfterGroup(d), 2, Len(AfterGroup(d))))
    ELSE AfterGroup(d)

\* s up to, not including, its first ':' or space; all of s when it has neither
UpToSeparator(s) ==
    LET seps == PositionsOf(s, ":") \cup PositionsOf(s, " ")
    IN  IF seps = {} THEN s ELSE SubSeq(s, 1, Min(seps) - 1)

\* s without the whitespace at its end
TrailingWhitespaceDropped(s) ==
    LET solid == {i \in 1..Len(s) : s[i] \notin {" ", "\t", "\n", "\r"}}
    IN  IF solid = {} THEN <<>>
        ELSE SubSeq(s, 1, CHOOSE i \in solid : \A j \in solid : j <= i)

\* the cases the specification lists
ExamplesExtracted ==
    /\ Directive = RunPass => directive_names = {<<"r", "u", "n", "-", "p", "a", "s", "s">>}
    /\ Directive = Edition => directive_names = {<<"e", "d", "i", "t", "i", "o", "n">>}
    /\ Directive = Revisioned => directive_names = {<<"i", "g", "n", "o", "r", "e", "-", "w", "i", "n", "d", "o", "w", "s">>}
    /\ Directive = RevisionedColon => directive_names = {<<"i", "g", "n", "o", "r", "e", "-", "w", "i", "n", "d", "o", "w", "s">>}
    /\ Directive = Unbalanced => pc = "failed"

\* C6 as stated: for a directive string "//", whitespace, revision group, stray ':',
\* text, the name is the text up to its first ':' or space, or the whole text when it
\* has neither; an unclosed revision group makes extraction fail.
C6_NameIsTextUpToSeparator ==
    (Extracted /\ BeginsWith(Directive, <<"/", "/">>)) =>
        /\ UnclosedGroup(Directive) => pc = "failed"
        /\ ~UnclosedGroup(Directive) =>
               /\ pc = "done"
               /\ directive_names = {UpToSeparator(TextOfDirective(Directive))}
        /\ ExamplesExtracted

\* C6 amended: the name is that text with the whitespace at its end removed.
C6_NameIsTrimmedTextUpToSeparator ==
    (Extracted /\ BeginsWith(Directive, <<"/", "/">>)) =>
        /\ UnclosedGroup(Directive) => pc = "failed"
        /\ ~UnclosedGroup(Directive) =>
               /\ pc = "done"
               /\ directive_names =
                      {TrailingWhitespaceDropped(UpToSeparator(TextOfDirective(Directive)))}
        /\ ExamplesExtracted

\* the name of a revisioned directive with a stray colon was extracted
C6_Witness ==
    /\ Extracted
    /\ Directive = RevisionedColon
    /\ directive_names = {<<"i", "g", "n", "o", "r", "e", "-", "w", "i", "n", "d", "o", "w", "s">>}

-----------------------------------------------------------------------------
(* C10 *)

\* non-whitespace text precedes the first "//" of d
TextBeforeMarker(d) ==
    \E j \in 1..(Min(MarkerPositions(d)) - 1) : d[j] \notin {" ", "\t", "\n", "\r"}

\* what follows the first "//" of d, without leading whitespace
BodyAfterMarker(d) ==
    LeadingWhitespaceDropped(SubSeq(d, Min(MarkerPositions(d)) + 2, Len(d)))

\* the way in which extraction must fail on d, "none" when it must succeed
ExpectedFailure(d) ==
    IF MarkerPositions(d) = {} THEN "bail_no_marker"
    ELSE IF TextBeforeMarker(d) THEN "assert_leading"
    ELSE IF BeginsWith(BodyAfterMarker(d), <<"[">>) /\ PositionsOf(BodyAfterMarker(d), "]") = {}
         THEN "panic_unpaired"
    ELSE "none"

\* C10: extraction fails exactly when the string has no "//", when text precedes the
\* first "//", or when the body opens a bracket it never closes; the two other
\* assertions never fail, and no extracted name contains ':' or a space.
C10_OnlyThreeFailures ==
    Extracted =>
        /\ failure = ExpectedFailure(Directive)
        /\ (pc = "failed") = (failure # "none")
        /\ failure \notin {"assert_bracket_order", "assert_no_space"}
        /\ \A n \in directive_names : PositionsOf(n, ":") = {} /\ PositionsOf(n, " ") = {}

\* a name was extracted from a revisioned directive without separator: both
\* assertions were evaluated and held
C10_Witness ==
    /\ Extracted
    /\ Directive = <<"/", "/", "[", "a", "]", "a">>
    /\ pc = "done"
    /\ directive_names = {<<"a">>}

-----------------------------------------------------------------------------
(* C7 *)

\* C7 as stated: a failure to enumerate, open, read or write ends the run with an
\* error; after a failure the run neither goes on to replace a file nor returns Ok(()).
C7_FailStop ==
    /\ failure # "none" => pc = "failed"
    /\ walk_errors # {} => (replaced = <<>> /\ pc # "done")

-----------------------------------------------------------------------------
(* C8 *)

\* the lines of a directive list, without their terminators
ListedLines(content) ==
    {LET l == SourceLines(content)[k]
         n == IF l[Len(l)] = "\n" THEN Len(l) - 1 ELSE Len(l)
         m == IF n < Len(l) /\ n >= 1 /\ l[n] = "\r" THEN n - 1 ELSE n
     IN  SubSeq(l, 1, m) : k \in 1..Len(SourceLines(content))}

\* an entry collect_headers filters: one that, leading and trailing whitespace aside,
\* is empty, is "//" or starts with '#', or whose text after its first "//" begins,
\* whitespace aside, with "ignore-tidy"
Filtered(h) ==
    LET t == TrailingWhitespaceDropped(LeadingWhitespaceDropped(h))
    IN  \/ t = <<>>
        \/ t = <<"/", "/">>
        \/ BeginsWith(t, <<"#">>)
        \/ /\ MarkerPositions(h) # {}
           /\ BeginsWith(LeadingWhitespaceDropped(
                             SubSeq(h, Min(MarkerPositions(h)) + 2, Len(h))),
                         <<"i", "g", "n", "o", "r", "e", "-", "t", "i", "d", "y">>)

\* the directive set was built in this run
SetBuilt == pc # "start" /\ failure # "read_headers"

ManualDirectives == {manual_directives[i] : i \in 1..Len(manual_directives)}

\* C8 as stated: every unfiltered line of the primary list and of every file of the
\* secondary tree, and every unfiltered manual directive, is a member of the set.
C8_UnionWithSecondaryTree ==
    SetBuilt =>
        \A h \in ListedLines(disk[HeadersFile]) \cup ListedLines(disk[SecondaryFile])
                    \cup ManualDirectives :
            ~Filtered(h) => h \in collected_headers

-----------------------------------------------------------------------------
(* C9 *)

\* the name ends with the extension, after a stem that is not empty
HasExtension(name, ext) ==
    /\ Len(name) > Len(ext) + 1
    /\ SubSeq(name, Len(name) - Len(ext), Len(name)) = <<".">> \o ext

\* a regular file under tests, with extension "rs" or "fixed", not under tests/ui
Candidate(f) ==
    /\ f \in Files
    /\ Len(f) >= 2
    /\ f[1] = n_tests
    /\ HasExtension(f[Len(f)], <<"r", "s">>) \/ HasExtension(f[Len(f)], <<"f", "i", "x", "e", "d">>)
    /\ f[2] # n_ui

\* the candidates of the model's file system in lexicographic path order
CandidatesInOrder == <<<<n_tests, n_a_rs>>, <<n_tests, n_d_rs, n_e_rs>>, <<n_tests, n_ui_fixed>>>>

\* the place of a path among the candidates, 0 when it is none
PlaceOf(f) ==
    IF \E i \in 1..Len(CandidatesInOrder) : CandidatesInOrder[i] = f
    THEN CHOOSE i \in 1..Len(CandidatesInOrder) : CandidatesInOrder[i] = f
    ELSE 0

\* C9: only candidates are replaced, one after the other in lexicographic path order,
\* every candidate the walker can read is replaced by a run that returns Ok(()), and
\* every other file keeps its content.
C9_CandidateSet ==
    /\ \A f \in Files : Candidate(f) = (PlaceOf(f) # 0)
    /\ \A i \in 1..Len(replaced) : Candidate(replaced[i])
    /\ \A i, j \in 1..Len(replaced) : i < j => PlaceOf(replaced[i]) < PlaceOf(replaced[j])
    /\ (command = "Migrate" /\ pc = "done" /\ unreadable = {})
           => {replaced[i] : i \in 1..Len(replaced)} = {f \in Files : Candidate(f)}
    /\ pc = "lines" => (Candidate(Path) /\ \A i \in 1..Len(replaced) :
                                               PlaceOf(replaced[i]) < PlaceOf(Path))
    /\ \A f \in Files : ~Candidate(f) => disk[f] = orig[f]

\* a run returned Ok(()) after replacing the three candidates, with changed content,
\* and left the file under tests/ui, the .txt file and the file outside tests alone
C9_Witness ==
    /\ pc = "done"
    /\ replaced = CandidatesInOrder
    /\ \A i \in 1..Len(replaced) : disk[replaced[i]] # orig[replaced[i]]
    /\ FullyMigrated(orig[<<n_tests, n_ui, n_a_rs>>], collected_headers)
           # orig[<<n_tests, n_ui, n_a_rs>>]
    /\ disk[<<n_tests, n_ui, n_a_rs>>] = orig[<<n_tests, n_ui, n_a_rs>>]
    /\ disk[<<n_tests, n_c_txt>>] = orig[<<n_tests, n_c_txt>>]
    /\ disk[<<n_src, n_a_rs>>] = orig[<<n_src, n_a_rs>>]

====
